---- MODULE Spec2Model ----
(***************************************************************************)
(* Model of the byob-todo-frontend single page application                 *)
(* (src/src/App.tsx).                                                      *)
(*                                                                         *)
(* The page is event-loop driven: every action below is one browser task   *)
(* (a DOM event handler, or the continuation of an `await` once the        *)
(* awaited request has settled) together with the reactive updates that    *)
(* the task triggers synchronously.  Between tasks the environment (the    *)
(* backend and the transport) may act on the requests in flight.           *)
(*                                                                         *)
(* createResource / createSignal / ErrorBoundary / For come from solid-js, *)
(* createClient from openapi-fetch; they are modelled at the places where  *)
(* App.tsx uses them, by what they do with the values App.tsx hands them:  *)
(*   - a resource remembers its latest promise `pr`; a settled promise is  *)
(*     applied (value/error replaced) only when it still is `pr`;          *)
(*   - reading a resource whose error is set and that is not loading       *)
(*     throws, and an ErrorBoundary latches the first error thrown by a    *)
(*     computation below it (a static fallback offers no reset);           *)
(*   - an error thrown by an async event handler rejects the promise the   *)
(*     handler returned; no computation of the boundary is involved;       *)
(*   - client.GET/POST/PUT/DELETE resolve to {data, error} for an HTTP     *)
(*     response and reject when the transport fails.                       *)
(***************************************************************************)
EXTENDS Integers, FiniteSets, Sequences, TLC

\* ------------------------------------------------------------------ bounds

\* Requests (list and write) the page issues in one run.
MaxRequests == 4

\* Requests in flight at a time.
MaxInFlight == 2

\* ------------------------------------------------------------ value spaces

\* Texts the user types as a title.
Titles == {"a", "b"}

\* JavaScript's undefined / null, and a defined value v, as <<>> and <<v>>.
undefined == <<>>
null == <<>>
Some(v) == <<v>>

\* type DoneFilter = 'all' | 'done' | 'notdone'
DoneFilter == {"all", "done", "notdone"}

\* Todo: {title, done}
Todo == [title : Titles, done : BOOLEAN]

\* What the backend holds when the page is opened.
InitialCollections ==
    { {},
      {[title |-> "a", done |-> FALSE], [title |-> "b", done |-> TRUE]} }

\* location.search, as the set of its name=value parameters.
Param(n, v) == [name |-> n, value |-> v]
Searches ==
    { {},
      {Param("backend", "")},
      {Param("backend", "http://localhost:8000")},
      {Param("other", "http://localhost:8000")} }

VARIABLES
    hasBackend, \* whether location.search carries a `backend` parameter
    rendered,   \* the component App rendered: "BackendForm" or "TodoApp"
    newTitle,   \* signal newTitle
    filter,     \* signal filter
    pr,         \* resource: id of its latest unsettled promise, 0 = null
    value,      \* resource: undefined or Some(snapshot)
    error,      \* resource: TRUE when its error signal is set
    errored,    \* ErrorBoundary: TRUE once it shows its fallback
    checked,    \* DOM: title -> checked state of the rendered checkboxes
    inflight,   \* requests issued and not yet settled at the client
    nextId,     \* id of the next request
    db,         \* backend: its collection
    lastList,   \* history: id of the list request issued last
    applied,    \* history: id of the list request whose outcome was applied last
    appliedDone, \* history: Some(its `done` parameter), null before the first
    last        \* history: the settled request the latest step handled, or Idle

vars == <<hasBackend, rendered, newTitle, filter, pr, value, error, errored,
          checked, inflight, nextId, db, lastList, applied, appliedDone, last>>

\* ----------------------------------------------------------------- helpers

Event(op, id, res, title) ==
    [op |-> op, id |-> id, res |-> res, title |-> title]

\* `last` after a step that ran no continuation.
Idle == Event("none", 0, "none", "")

\* The rows <For each={data()}> renders for a snapshot: one checkbox per todo.
Rows(v) ==
    IF v = undefined THEN <<>>
    ELSE [t \in {x.title : x \in v[1]} |->
            (CHOOSE x \in v[1] : x.title = t).done]

Writes == {r \in inflight : r.method # "GET"}

\* --------------------------------------------------------------- the client

\* The fetcher's translation of the filter into the `done` query parameter.
DoneParam_Swapped(filterValue) ==
    IF filterValue = "done" THEN Some(FALSE)
    ELSE IF filterValue = "notdone" THEN Some(TRUE)
    ELSE undefined

DoneParam(filterValue) ==
    IF filterValue = "done" THEN Some(TRUE)
    ELSE IF filterValue = "notdone" THEN Some(FALSE)
    ELSE undefined

\* A request as it leaves the client.  res: "none" until the backend has
\* answered, then "ok" / "error" (an HTTP error response), or "reject" when
\* the transport failed.  lookup is the filter value the fetcher was called
\* with (list requests only).
Request(id, method, title, done, lookup) ==
    [id |-> id, method |-> method, title |-> title, done |-> done,
     lookup |-> lookup, res |-> "none", data |-> {}]

\* client.GET('/', {params: {query: {done}}})
GET_Unfiltered(id, filterValue) ==
    Request(id, "GET", "", undefined, filterValue)

GET(id, filterValue) ==
    Request(id, "GET", "", DoneParam(filterValue), filterValue)

\* client.POST('/', {body: {title: newTitle(), done: false}})
POST(id, title) == Request(id, "POST", title, Some(FALSE), "")

\* client.PUT('/{title}', {params: {path: {title}, query: {done}}})
PUT(id, title, done) == Request(id, "PUT", title, Some(done), "")

\* client.DELETE('/{title}', {params: {path: {title}}})
DELETE(id, title) == Request(id, "DELETE", title, undefined, "")

\* What `await client.X(...)` yields for a settled request: it throws when
\* the transport failed, else it is the pair {data, error}.  The error of an
\* HTTP error response is its body, an object such as {detail: ...}, which
\* `if (error)` takes as true.
Await(r) ==
    [threw |-> r.res = "reject",
     data  |-> IF r.res = "ok" THEN Some(r.data) ELSE undefined,
     error |-> r.res = "error"]

\* Whether the page URL carries the parameter.
HasParam(params, name) == \E p \in params : p.name = name

\* URLSearchParams(search).get(name): the value of the parameter, or null.
URLSearchParamsGet(params, name) ==
    IF \E p \in params : p.name = name
    THEN Some((CHOOSE p \in params : p.name = name).value)
    ELSE null

\* App: <Show when={backend !== null} fallback={<BackendForm />}>
App_Truthy(params) ==
    LET backend == URLSearchParamsGet(params, "backend")
    IN  IF backend # null /\ backend[1] # "" THEN "TodoApp" ELSE "BackendForm"

App(params) ==
    LET backend == URLSearchParamsGet(params, "backend")
    IN  IF backend # null THEN "TodoApp" ELSE "BackendForm"

\* ------------------------------------------------------------- the resource

\* createResource's load: calls the fetcher with the source value, makes its
\* promise the resource's latest one.  net is the set of requests that stay
\* in flight.  (load ignores a refetch made in the same microtask checkpoint
\* as an earlier load; the continuations that call refetch run one per task,
\* so every refetch loads.)
load(net, lookup) ==
    /\ inflight' = net \cup {GET(nextId, lookup)}
    /\ nextId' = nextId + 1
    /\ pr' = nextId
    /\ lastList' = nextId

\* refetch() of the resource: load with the source's current value.
refetch_All(net) == load(net, "all")

refetch(net) == load(net, filter)

\* The fetcher after its await: `if (error) throw error; return data`.
\* Its promise is rejected when the await threw or the fetcher threw.
Fetcher_Swallow(r) ==
    LET a == Await(r)
    IN  [rejected |-> a.threw, v |-> a.data]

Fetcher(r) ==
    LET a == Await(r)
    IN  IF a.threw \/ a.error
        THEN [rejected |-> TRUE, v |-> undefined]
        ELSE [rejected |-> FALSE, v |-> a.data]

\* ErrorBoundary: it shows the fallback once a computation below it threw;
\* the static fallback has no reset.
Boundary_NoLatch(was, threw) == threw

Boundary(was, threw) == was \/ threw

\* An error thrown by an async event handler (addTodo, toggleTodo,
\* deleteTodo) rejects the promise the handler returned to the event
\* dispatcher; the boundary's state is what it was.
HandlerThrew(was) == was

\* completeLoad, reached from loadEnd when the settled promise is still the
\* resource's latest one: on success the value is replaced and the error
\* cleared; on failure the value is kept and the error set, and
\* <For each={data()}> reading the resource throws into the boundary.
completeLoad_ReplaceOnError(r) ==
    LET f == Fetcher(r)
        e == Boundary(errored, f.rejected)
    IN  /\ pr' = 0
        /\ applied' = r.id
        /\ appliedDone' = Some(r.done)
        /\ value' = f.v
        /\ error' = f.rejected
        /\ errored' = e
        /\ checked' = IF e THEN <<>> ELSE Rows(f.v)

completeLoad(r) ==
    LET f == Fetcher(r)
        e == Boundary(errored, f.rejected)
    IN  /\ pr' = 0
        /\ applied' = r.id
        /\ appliedDone' = Some(r.done)
        /\ value' = IF f.rejected THEN value ELSE f.v
        /\ error' = f.rejected
        /\ errored' = e
        /\ checked' = IF e THEN <<>>
                      ELSE IF f.rejected THEN checked ELSE Rows(f.v)

\* loadEnd: `if (pr === p) {pr = null; completeLoad(v, error)}`.
loadEnd_NoGuard(r) == completeLoad(r)

loadEnd(r) ==
    IF pr = r.id
    THEN completeLoad(r)
    ELSE UNCHANGED <<pr, applied, appliedDone, value, error, errored, checked>>

\* ------------------------------------------------------------------- Init

\* TodoApp's set-up: both signals at their initial values, and
\* createResource's first load.
Init_NoFirstLoad ==
    /\ \E params \in Searches :
          /\ hasBackend = HasParam(params, "backend")
          /\ rendered = App(params)
    /\ db \in InitialCollections
    /\ newTitle = ""
    /\ filter = "all"
    /\ value = undefined
    /\ error = FALSE
    /\ errored = FALSE
    /\ checked = <<>>
    /\ applied = 0
    /\ appliedDone = null
    /\ last = Event("init", 0, "none", "")
    /\ inflight = {}
    /\ nextId = 1
    /\ pr = 0
    /\ lastList = 0

Init ==
    /\ \E params \in Searches :
          /\ hasBackend = HasParam(params, "backend")
          /\ rendered = App(params)
    /\ db \in InitialCollections
    /\ newTitle = ""
    /\ filter = "all"
    /\ value = undefined
    /\ error = FALSE
    /\ errored = FALSE
    /\ checked = <<>>
    /\ applied = 0
    /\ appliedDone = null
    /\ last = Event("init", 0, "none", "")
    /\ IF rendered = "TodoApp"
       THEN \* createResource runs load once while TodoApp is set up
            /\ inflight = {GET(1, filter)}
            /\ nextId = 2
            /\ pr = 1
            /\ lastList = 1
       ELSE /\ inflight = {}
            /\ nextId = 1
            /\ pr = 0
            /\ lastList = 0

\* The controls of the todo view exist while TodoApp is rendered and the
\* boundary shows its children.
Interactive_BesideFallback == rendered = "TodoApp"

Interactive == rendered = "TodoApp" /\ ~errored

\* Room for n requests now (a write and its refetch: 2) beside the refetch of
\* every write still in flight, and for one more request in flight.
Room(n) ==
    /\ nextId + n - 1 + Cardinality(Writes) <= MaxRequests
    /\ Cardinality(inflight) < MaxInFlight

\* ------------------------------------------------------------ user events

\* radio onChange={() => setFilter(value)}; the resource's source changed,
\* so createResource loads again.
SetFilter_NoLoad(f) ==
    /\ Interactive
    /\ f # filter
    /\ Room(1)
    /\ filter' = f
    /\ last' = Idle
    /\ UNCHANGED <<hasBackend, rendered, newTitle, value, error, errored, checked,
                   db, applied, appliedDone, inflight, nextId, pr, lastList>>

SetFilter(f) ==
    /\ Interactive
    /\ f # filter
    /\ Room(1)
    /\ filter' = f
    /\ load(inflight, f)
    /\ last' = Idle
    /\ UNCHANGED <<hasBackend, rendered, newTitle, value, error, errored, checked,
                   db, applied, appliedDone>>

\* input onInput={(e) => setTitle(e.currentTarget.value)}
Input_Reload(text) ==
    /\ Interactive
    /\ text # newTitle
    /\ Room(1)
    /\ newTitle' = text
    /\ load(inflight, filter)
    /\ last' = Idle
    /\ UNCHANGED <<hasBackend, rendered, filter, value, error, errored,
                   checked, db, applied, appliedDone>>

Input(text) ==
    /\ Interactive
    /\ text # newTitle
    /\ newTitle' = text
    /\ last' = Idle
    /\ UNCHANGED <<hasBackend, rendered, filter, pr, value, error, errored,
                   checked, inflight, nextId, db, lastList, applied, appliedDone>>

\* form onSubmit={addTodo}, up to the await; the input is `required`, so the
\* browser submits the form only when it is not empty.
Submit_NotRequired ==
    /\ Interactive
    /\ Room(2)
    /\ inflight' = inflight \cup {POST(nextId, newTitle)}
    /\ nextId' = nextId + 1
    /\ last' = Idle
    /\ UNCHANGED <<hasBackend, rendered, newTitle, filter, pr, value, error,
                   errored, checked, db, lastList, applied, appliedDone>>

Submit ==
    /\ Interactive
    /\ newTitle # ""
    /\ Room(2)
    /\ inflight' = inflight \cup {POST(nextId, newTitle)}
    /\ nextId' = nextId + 1
    /\ last' = Idle
    /\ UNCHANGED <<hasBackend, rendered, newTitle, filter, pr, value, error,
                   errored, checked, db, lastList, applied, appliedDone>>

\* checkbox onChange={(e) => toggleTodo(todo.title, e.currentTarget.checked)},
\* up to the await: the click has flipped the checkbox.
Toggle(t) ==
    /\ Interactive
    /\ t \in DOMAIN checked
    /\ Room(2)
    /\ checked' = [checked EXCEPT ![t] = ~@]
    /\ inflight' = inflight \cup {PUT(nextId, t, ~checked[t])}
    /\ nextId' = nextId + 1
    /\ last' = Idle
    /\ UNCHANGED <<hasBackend, rendered, newTitle, filter, pr, value, error,
                   errored, db, lastList, applied, appliedDone>>

\* button onClick={() => deleteTodo(todo.title)}, up to the await.
Delete_Optimistic(t) ==
    /\ Interactive
    /\ t \in DOMAIN checked
    /\ Room(2)
    /\ inflight' = inflight \cup {DELETE(nextId, t)}
    /\ nextId' = nextId + 1
    /\ value' = Some({x \in value[1] : x.title # t})
    /\ checked' = [u \in DOMAIN checked \ {t} |-> checked[u]]
    /\ last' = Idle
    /\ UNCHANGED <<hasBackend, rendered, newTitle, filter, pr, error, errored,
                   db, lastList, applied, appliedDone>>

Delete(t) ==
    /\ Interactive
    /\ t \in DOMAIN checked
    /\ Room(2)
    /\ inflight' = inflight \cup {DELETE(nextId, t)}
    /\ nextId' = nextId + 1
    /\ last' = Idle
    /\ UNCHANGED <<hasBackend, rendered, newTitle, filter, pr, value, error,
                   errored, checked, db, lastList, applied, appliedDone>>

\* ------------------------------------------- continuations after the await

Settled(r) == r \in inflight /\ r.res # "none"

\* The fetcher's promise settles and createResource's loadEnd runs.
ListSettles(r) ==
    /\ Settled(r)
    /\ r.method = "GET"
    /\ inflight' = inflight \ {r}
    /\ loadEnd(r)
    /\ last' = Event("list", r.id, r.res, "")
    /\ UNCHANGED <<hasBackend, rendered, newTitle, filter, nextId, db, lastList>>

\* A handler after its await: `if (error) throw error; refetch();`
\* (addTodo then also `setTitle('')`).
Failed(r) == Await(r).threw \/ Await(r).error

Throw(r) ==
    /\ inflight' = inflight \ {r}
    /\ errored' = HandlerThrew(errored)
    /\ UNCHANGED <<nextId, pr, lastList>>

addTodo_KeepTitle(r) ==
    IF Failed(r)
    THEN Throw(r) /\ UNCHANGED newTitle
    ELSE refetch(inflight \ {r}) /\ UNCHANGED <<newTitle, errored>>

addTodo_ClearFirst(r) ==
    IF Failed(r)
    THEN Throw(r) /\ newTitle' = ""
    ELSE refetch(inflight \ {r}) /\ newTitle' = "" /\ UNCHANGED errored

addTodo_NoThrow(r) ==
    refetch(inflight \ {r}) /\ newTitle' = "" /\ UNCHANGED errored

addTodo(r) ==
    IF Failed(r)
    THEN Throw(r) /\ UNCHANGED newTitle
    ELSE refetch(inflight \ {r}) /\ newTitle' = "" /\ UNCHANGED errored

toggleTodo_NoRefetch(r) ==
    IF Failed(r)
    THEN Throw(r)
    ELSE /\ inflight' = inflight \ {r}
         /\ UNCHANGED <<errored, nextId, pr, lastList>>

toggleTodo_Retry(r) ==
    IF Failed(r)
    THEN /\ inflight' = (inflight \ {r}) \cup {PUT(nextId, r.title, r.done[1])}
         /\ nextId' = nextId + 1
         /\ UNCHANGED <<errored, pr, lastList>>
    ELSE refetch(inflight \ {r}) /\ UNCHANGED errored

toggleTodo(r) ==
    IF Failed(r)
    THEN Throw(r)
    ELSE refetch(inflight \ {r}) /\ UNCHANGED errored

deleteTodo_NoThrow(r) ==
    refetch(inflight \ {r}) /\ UNCHANGED errored

deleteTodo(r) ==
    IF Failed(r)
    THEN Throw(r)
    ELSE refetch(inflight \ {r}) /\ UNCHANGED errored

AddSettles(r) ==
    /\ Settled(r)
    /\ r.method = "POST"
    /\ addTodo(r)
    /\ last' = Event("addTodo", r.id, r.res, r.title)
    /\ UNCHANGED <<hasBackend, rendered, filter, value, error, checked, db,
                   applied, appliedDone>>

ToggleSettles(r) ==
    /\ Settled(r)
    /\ r.method = "PUT"
    /\ toggleTodo(r)
    /\ last' = Event("toggleTodo", r.id, r.res, r.title)
    /\ UNCHANGED <<hasBackend, rendered, newTitle, filter, value, error, checked,
                   db, applied, appliedDone>>

DeleteSettles(r) ==
    /\ Settled(r)
    /\ r.method = "DELETE"
    /\ deleteTodo(r)
    /\ last' = Event("deleteTodo", r.id, r.res, r.title)
    /\ UNCHANGED <<hasBackend, rendered, newTitle, filter, value, error, checked,
                   db, applied, appliedDone>>

\* ------------------------------------------------- backend and transport

TitlesOf(S) == {x.title : x \in S}

\* GET /?done= : the collection, restricted when `done` is given.
Listing(S, done) ==
    IF done = undefined THEN S ELSE {x \in S : x.done = done[1]}

\* The collection after a write that the backend accepts.
Written(S, r) ==
    CASE r.method = "POST" ->
            S \cup {[title |-> r.title, done |-> r.done[1]]}
      [] r.method = "PUT" ->
            {x \in S : x.title # r.title}
                \cup {[title |-> r.title, done |-> r.done[1]]}
      [] r.method = "DELETE" -> {x \in S : x.title # r.title}
      [] OTHER -> S

\* Titles identify todos: a create of a present title and an update of an
\* absent one are refused.
Acceptable(S, r) ==
    CASE r.method = "POST" -> r.title \notin TitlesOf(S)
      [] r.method = "PUT" -> r.title \in TitlesOf(S)
      [] OTHER -> TRUE

Answer(r, res, data) == [r EXCEPT !.res = res, !.data = data]

\* The backend answers a request with a success response.
BackendAccepts(r) ==
    /\ r \in inflight
    /\ r.res = "none"
    /\ Acceptable(db, r)
    /\ db' = Written(db, r)
    /\ inflight' = (inflight \ {r}) \cup
         {Answer(r, "ok", IF r.method = "GET" THEN Listing(db, r.done) ELSE {})}
    /\ UNCHANGED <<hasBackend, rendered, newTitle, filter, pr, value, error,
                   errored, checked, nextId, lastList, applied, appliedDone>>
    /\ last' = Idle

\* The backend answers a request with an HTTP error response.
BackendRefuses(r) ==
    /\ r \in inflight
    /\ r.res = "none"
    /\ inflight' = (inflight \ {r}) \cup {Answer(r, "error", {})}
    /\ UNCHANGED <<hasBackend, rendered, newTitle, filter, pr, value, error,
                   errored, checked, nextId, db, lastList, applied, appliedDone>>
    /\ last' = Idle

\* The transport fails: the request or its response is lost and fetch rejects.
TransportFails(r) ==
    /\ r \in inflight
    /\ r.res # "reject"
    /\ inflight' = (inflight \ {r}) \cup {Answer(r, "reject", {})}
    /\ UNCHANGED <<hasBackend, rendered, newTitle, filter, pr, value, error,
                   errored, checked, nextId, db, lastList, applied, appliedDone>>
    /\ last' = Idle

\* ------------------------------------------------------------------- Next

Next ==
    \/ \E f \in DoneFilter : SetFilter(f)
    \/ \E text \in Titles \cup {""} : Input(text)
    \/ Submit
    \/ \E t \in Titles : Toggle(t)
    \/ \E t \in Titles : Delete(t)
    \/ \E r \in inflight : ListSettles(r)
    \/ \E r \in inflight : AddSettles(r)
    \/ \E r \in inflight : ToggleSettles(r)
    \/ \E r \in inflight : DeleteSettles(r)
    \/ \E r \in inflight : BackendAccepts(r)
    \/ \E r \in inflight : BackendRefuses(r)
    \/ \E r \in inflight : TransportFails(r)

Spec == Init /\ [][Next]_vars

\* The shape of the state.
TypeOK ==
    /\ hasBackend \in BOOLEAN
    /\ rendered \in {"BackendForm", "TodoApp"}
    /\ newTitle \in Titles \cup {""}
    /\ filter \in DoneFilter
    /\ pr \in 0 .. MaxRequests
    /\ value = undefined \/ (Len(value) = 1 /\ value[1] \subseteq Todo)
    /\ error \in BOOLEAN
    /\ errored \in BOOLEAN
    /\ DOMAIN checked \subseteq Titles
    /\ \A r \in inflight :
          /\ r.id \in 1 .. MaxRequests
          /\ r.method \in {"GET", "POST", "PUT", "DELETE"}
          /\ r.res \in {"none", "ok", "error", "reject"}
          /\ r.data \subseteq Todo
    /\ \A r \in inflight, q \in inflight : r.id = q.id => r = q
    /\ nextId \in 1 .. MaxRequests + 1
    /\ db \subseteq Todo
    /\ \A x \in db, y \in db : x.title = y.title => x = y
    /\ lastList \in 0 .. MaxRequests
    /\ applied \in 0 .. MaxRequests
    /\ appliedDone \in {null} \cup {Some(d) : d \in {undefined, Some(TRUE), Some(FALSE)}}

\* ================================================================ claims

\* A step that hands the settled request r to its continuation: r leaves the
\* requests in flight.
Handled(r) ==
    /\ r \in inflight
    /\ r.res # "none"
    /\ \A q \in inflight' : q.id # r.id

\* The list requests a step issues.
NewLists == {g \in inflight' : g.method = "GET" /\ g.id >= nextId}

\* The `done` parameter the REST contract asks for each filter value.
ExpectedDone(f) ==
    CASE f = "all" -> undefined
      [] f = "done" -> <<TRUE>>
      [] f = "notdone" -> <<FALSE>>

\* C1: once a list request has been superseded by a later-issued one, its
\* response is never applied: whenever the outcome of a list request is
\* applied, that request is the one issued last and is newer than the one
\* applied before, and the displayed snapshot changes only by such a step.
C1_StaleNeverApplied ==
    [][ /\ applied' # applied => applied' = lastList /\ applied' > applied
        /\ <<value, error>>' # <<value, error>> => applied' # applied
        /\ \A r \in inflight :
              r.method = "GET" /\ r.id < lastList /\ Handled(r)
                  => UNCHANGED <<value, error, errored, checked, applied, appliedDone>>
      ]_vars

\* f1 (request 2) then f2 (request 3); f2's successful response was applied,
\* then f1's successful response arrived and was discarded.
C1_Witness ==
    /\ last = Event("list", 2, "ok", "")
    /\ applied = 3
    /\ lastList = 3
    /\ filter = "done"
    /\ value = Some({[title |-> "b", done |-> TRUE]})

\* C2: every list request carries `done` omitted for all, true for done and
\* false for notdone, and is issued for the filter value current at the
\* moment it is issued.
C2_DoneParamOfFilter ==
    /\ [](\A r \in inflight : r.method = "GET" =>
            \/ r.lookup = "all" /\ r.done = undefined
            \/ r.lookup = "done" /\ r.done = <<TRUE>>
            \/ r.lookup = "notdone" /\ r.done = <<FALSE>>)
    /\ [][\A g \in NewLists : g.lookup = filter']_vars

\* The initial request for all was answered; the requests of a change to done
\* and of a change to notdone are out.
C2_Witness ==
    /\ applied = 1
    /\ \E r2 \in inflight, r3 \in inflight :
          /\ r2.method = "GET" /\ r2.lookup = "done" /\ r2.done = <<TRUE>>
          /\ r3.method = "GET" /\ r3.lookup = "notdone" /\ r3.done = <<FALSE>>

\* C3: a mutation handler whose write request succeeded triggers exactly one
\* list refetch, and one whose write request failed triggers none.
C3_RefetchOnlyOnSuccess ==
    [][\A r \in inflight :
          r.method \in {"POST", "PUT", "DELETE"} /\ Handled(r) =>
              IF r.res = "ok"
              THEN /\ Cardinality(NewLists) = 1
                   /\ nextId' = nextId + 1
                   /\ inflight' = (inflight \ {r}) \cup NewLists
                   /\ pr' = nextId
              ELSE /\ NewLists = {}
                   /\ nextId' = nextId
                   /\ inflight' = inflight \ {r}
                   /\ pr' = pr
      ]_vars

C3_Witness ==
    /\ last = Event("toggleTodo", 2, "ok", "b")
    /\ pr = 3
    /\ \E g \in inflight : g.method = "GET" /\ g.id = 3 /\ g.res = "none"

\* C4: when a write request of a mutation handler fails, the error boundary
\* is activated.
C4_WriteFailureActivatesBoundary ==
    [][\A r \in inflight :
          /\ r.method \in {"POST", "PUT", "DELETE"}
          /\ r.res \in {"error", "reject"}
          /\ Handled(r)
          => errored'
      ]_vars

\* What the page shows.
View ==
    IF rendered = "BackendForm" THEN "BackendForm"
    ELSE IF errored THEN "Error loading data"
    ELSE "todo view"

\* C5: when the authoritative list request (the resource's latest one) fails,
\* by an HTTP error response or by a transport failure, the error is not
\* swallowed: the boundary shows the error message in place of the whole todo
\* view, and both kinds of failure leave the same view state.
C5_ListFailureShowsError ==
    [][\A r \in inflight :
          /\ r.method = "GET"
          /\ r.id = pr
          /\ r.res \in {"error", "reject"}
          /\ Handled(r)
          => /\ errored'
             /\ View' = "Error loading data"
             /\ error'
             /\ checked' = <<>>
             /\ UNCHANGED <<value, newTitle, filter>>
      ]_vars

\* The latest list request was answered with an HTTP error response and the
\* error message is shown.
C5_Witness ==
    /\ last.op = "list"
    /\ last.res = "error"
    /\ applied = last.id
    /\ lastList = last.id
    /\ View = "Error loading data"

\* C6: the error view is absorbing: once the boundary shows the error
\* message, no later step brings the todo view back.
C6_ErrorViewAbsorbing ==
    [][errored => errored' /\ View' = "Error loading data"]_vars

\* The error message is shown, and afterwards a write that was in flight
\* completed, its refetch was answered and applied to the resource.
C6_Witness ==
    /\ errored
    /\ last.op = "list"
    /\ last.res = "ok"
    /\ applied = last.id
    /\ ~error
    /\ value # undefined

\* C7: after a create whose POST succeeded has been handled, the new-title
\* cell is the empty string, whatever it held before.
C7_SuccessfulCreateClearsTitle ==
    [][\A r \in inflight :
          r.method = "POST" /\ r.res = "ok" /\ Handled(r) => newTitle' = ""
      ]_vars

C7_Witness ==
    /\ last.op = "addTodo"
    /\ last.res = "ok"
    /\ last.title = "a"
    /\ newTitle = ""
    /\ \E x \in db : x.title = "a"

\* C8: when a create's POST fails, the create handler leaves the new-title
\* cell unchanged: a cell that holds the submitted title still holds it and
\* is not reset to empty.
C8_FailedCreateKeepsTitle ==
    [][\A r \in inflight :
          r.method = "POST" /\ r.res \in {"error", "reject"} /\ Handled(r)
          => /\ newTitle' = newTitle
             /\ newTitle = r.title => newTitle' = r.title /\ newTitle' # ""
      ]_vars

C8_Witness ==
    /\ last.op = "addTodo"
    /\ last.res = "error"
    /\ last.title = "a"
    /\ newTitle = "a"

\* C9: every change of the filter cell to a different value issues exactly
\* one list request, carrying the new filter's `done` parameter.
C9_FilterChangeIssuesOneList ==
    [][filter' # filter =>
          /\ Cardinality(NewLists) = 1
          /\ nextId' = nextId + 1
          /\ inflight' = inflight \cup NewLists
          /\ \A g \in NewLists :
                g.id = nextId /\ g.res = "none" /\ g.done = ExpectedDone(filter')
      ]_vars

\* The filter was changed to notdone and the list request for it is out.
C9_Witness ==
    /\ filter = "notdone"
    /\ pr = lastList
    /\ \E g \in inflight :
          /\ g.method = "GET"
          /\ g.id = pr
          /\ g.id > 1
          /\ g.done = <<FALSE>>

\* C10: the todo view is rendered if and only if the page URL carries a
\* `backend` parameter; without it the configuration form is rendered and
\* no request is ever issued.
C10_BackendGate ==
    /\ rendered = "TodoApp" <=> hasBackend
    /\ ~hasBackend =>
          /\ rendered = "BackendForm"
          /\ inflight = {}
          /\ nextId = 1
          /\ lastList = 0

C10_Witness ==
    /\ ~hasBackend
    /\ View = "BackendForm"
    /\ inflight = {}

\* C11: when the app starts with a `backend` parameter, the filter is all,
\* the new-title cell is empty and exactly one list request, with `done`
\* omitted, is out before any user action: every later list request is
\* issued by a filter change or by the handling of a successful write.
C11_InitialListRequest ==
    /\ hasBackend =>
          /\ rendered = "TodoApp"
          /\ filter = "all"
          /\ newTitle = ""
          /\ inflight = {[id |-> 1, method |-> "GET", title |-> "",
                          done |-> undefined, lookup |-> "all",
                          res |-> "none", data |-> {}]}
          /\ nextId = 2
          /\ pr = 1
    /\ [][NewLists # {} =>
             \/ filter' # filter
             \/ \E r \in inflight :
                   r.method # "GET" /\ r.res = "ok" /\ Handled(r)
         ]_vars

\* The page was opened with a backend and nothing has happened yet.
C11_Witness ==
    /\ hasBackend
    /\ last.op = "init"
    /\ filter = "all"
    /\ newTitle = ""
    /\ \E g \in inflight :
          g.id = 1 /\ g.method = "GET" /\ g.done = undefined /\ g.res = "none"
    /\ Cardinality(inflight) = 1

\* The write requests a step issues.
NewWrites == {w \in inflight' : w.method # "GET" /\ w.id >= nextId}

\* C12: every toggle of a todo shown in the displayed snapshot issues a PUT
\* addressed by that todo's title whose `done` parameter is the inverse of
\* the `done` value the displayed snapshot holds for that title, also when
\* an earlier toggle of the same item failed or is still in flight.
C12_ToggleSendsInverseOfSnapshot ==
    [][\A w \in NewWrites :
          w.method = "PUT" =>
             /\ w.title \in DOMAIN Rows(value)
             /\ w.done = Some(~Rows(value)[w.title])
      ]_vars

\* What <For each={data()} fallback={<div>No todos</div>}> puts in the list
\* area for the resource's value: the fallback for undefined and for an empty
\* list, else one row per todo.  Nothing reads data.loading and there is no
\* Suspense, so data() is the value while a load is pending.
ForRender(v) ==
    IF v = undefined \/ v[1] = {} THEN "No todos" ELSE "rows"

\* C13: while a filter change's list request is pending the list area is in
\* the loading render state: from the filter change on, the previous
\* filter's snapshot is not presented as the current list.
C13_FilterChangeShowsLoading ==
    [][filter' # filter =>
          /\ pr' # 0
          /\ ForRender(value') # "rows"
      ]_vars

\* C14: in every state of the todo view the list area is in exactly one of
\* three distinguishable render states, loading (no list response applied
\* yet), empty (the applied response is an empty list) and populated; loading
\* and empty are never rendered the same.
C14_LoadingDistinctFromEmpty ==
    Interactive /\ applied = 0 => ForRender(value) # ForRender(Some({}))

\* C15: when a delete's request fails, the handler leaves the displayed
\* snapshot as it was: the todo whose deletion failed is still displayed and
\* no list request is issued on behalf of that delete.
C15_FailedDeleteKeepsSnapshot ==
    [][\A r \in inflight :
          r.method = "DELETE" /\ Failed(r) /\ Handled(r) =>
             /\ value' = value
             /\ checked' = checked
             /\ r.title \in DOMAIN checked => r.title \in DOMAIN Rows(value')
             /\ NewLists = {}
             /\ pr' = pr
      ]_vars

\* A failed delete of a displayed todo has just been handled.
C15_Witness ==
    /\ last.op = "deleteTodo"
    /\ last.res \in {"error", "reject"}
    /\ last.title \in DOMAIN checked
    /\ last.title \in DOMAIN Rows(value)

\* C16: a manual refetch leaves the filter cell unchanged and issues a list
\* request whose `done` parameter is derived from the filter value current
\* when the refetch is triggered, that is when the write's success is
\* handled, not from the filter value current when the write was started.
C16_RefetchUsesCurrentFilter ==
    [][\A r \in inflight :
          r.method # "GET" /\ ~Failed(r) /\ Handled(r) =>
             /\ filter' = filter
             /\ Cardinality(NewLists) = 1
             /\ \A g \in NewLists :
                   /\ g.lookup = filter
                   /\ g.done = ExpectedDone(filter)
                   /\ pr' = g.id
      ]_vars

\* The refetch after a successful write is out with the filter's current
\* value, and the write itself was started under another filter value: the
\* list request issued just before the refetch came from a filter change made
\* after the write had been issued.
C16_Witness ==
    /\ last.op \in {"addTodo", "toggleTodo", "deleteTodo"}
    /\ last.res = "ok"
    /\ filter # "all"
    /\ last.id = 2
    /\ lastList = 4
    /\ \E g \in inflight :
          g.id = 4 /\ g.method = "GET" /\ g.lookup = filter /\ g.res = "none"

\* C17: no POST is ever issued with an empty title: a create is submitted
\* only when the new-title cell is not empty, and every POST body is
\* {title, done: false} with title the value of the new-title cell at the
\* moment of submission.
C17_CreateNeedsTitle ==
    /\ [](\A r \in inflight :
             r.method = "POST" => r.title # "" /\ r.done = Some(FALSE))
    /\ [][\A w \in NewWrites :
             w.method = "POST" =>
                /\ newTitle # ""
                /\ w.title = newTitle
                /\ w.done = Some(FALSE)
         ]_vars

\* A create has just been submitted with the text typed in the input.
C17_Witness ==
    \E r \in inflight :
       /\ r.method = "POST"
       /\ r.res = "none"
       /\ r.id = nextId - 1
       /\ r.title = newTitle
       /\ newTitle \in Titles

\* C18: each user-triggered create, toggle or delete issues exactly one write
\* request, and no request, write or list, that failed is re-issued
\* automatically: handling a failure issues no request.
C18_OneWriteNoRetry ==
    [][/\ (Submit \/ \E t \in Titles : Toggle(t) \/ Delete(t)) =>
             /\ Cardinality(NewWrites) = 1
             /\ NewLists = {}
       /\ NewWrites # {} => \A r \in inflight : ~Handled(r)
       /\ \A r \in inflight :
             Failed(r) /\ Handled(r) =>
                /\ \A q \in inflight' : q.id < nextId
                /\ nextId' = nextId
      ]_vars

\* A toggle failed, its failure has been handled and nothing is in flight.
C18_Witness ==
    /\ last.op = "toggleTodo"
    /\ last.res \in {"error", "reject"}
    /\ last.id = 2
    /\ nextId = 3
    /\ inflight = {}

\* C19: the displayed snapshot changes only when the response of a list
\* request is applied: starting a create, toggle or delete, and handling its
\* success or failure, never adds, removes or alters an item of the
\* displayed snapshot.
C19_SnapshotOnlyFromList ==
    [][/\ (value' # value \/ DOMAIN checked' # DOMAIN checked) =>
             \E r \in inflight : r.method = "GET" /\ Handled(r) /\ r.id = pr
       /\ (\/ NewWrites # {}
           \/ \E r \in inflight : r.method # "GET" /\ Handled(r)) =>
             /\ value' = value
             /\ DOMAIN checked' = DOMAIN checked
      ]_vars

\* The backend has deleted a todo, the delete's success has been handled and
\* the todo is still in the displayed snapshot: the refetch is not back yet.
C19_Witness ==
    /\ last.op = "deleteTodo"
    /\ last.res = "ok"
    /\ last.title \in DOMAIN Rows(value)
    /\ last.title \notin TitlesOf(db)
    /\ pr # 0

\* C20: the filter cell and the new-title cell are independent: editing the
\* new-title cell issues no request and leaves the filter and the displayed
\* snapshot unchanged, and changing the filter leaves the new-title cell
\* unchanged.
C20_CellsIndependent ==
    [][/\ (newTitle' # newTitle /\ \A r \in inflight : ~Handled(r)) =>
             /\ inflight' = inflight
             /\ nextId' = nextId
             /\ pr' = pr
             /\ filter' = filter
             /\ value' = value
             /\ checked' = checked
       /\ filter' # filter => newTitle' = newTitle
      ]_vars

\* A title has been typed and the filter changed, in either order, and
\* nothing else has happened: the only request issued since the page was
\* opened is the filter change's.
C20_Witness ==
    /\ newTitle \in Titles
    /\ filter = "done"
    /\ nextId = 3
    /\ \E g \in inflight : g.id = 2 /\ g.method = "GET" /\ g.lookup = "done"
    /\ \A q \in inflight : q.method = "GET"

\* C21: once the error boundary has replaced the todo view, no user action
\* of the todo view (filter change, create, toggle, delete) is enabled any
\* more: no write request and no filter-triggered list request is started
\* from such a state.
C21_NoActionBehindFallback ==
    [][errored =>
          /\ NewWrites = {}
          /\ filter' = filter
          /\ ~(\/ Submit
               \/ \E f \in DoneFilter : SetFilter(f)
               \/ \E text \in Titles \cup {""} : Input(text)
               \/ \E t \in Titles : Toggle(t) \/ Delete(t))
      ]_vars

\* The boundary shows its fallback while a write issued before is still in
\* flight and there is room for further requests.
C21_Witness ==
    /\ errored
    /\ \E w \in inflight : w.method # "GET"
    /\ newTitle # ""
    /\ nextId <= MaxRequests - 1
    /\ Cardinality(inflight) < MaxInFlight

\* C22: the outcome of every completed list request is exactly one of
\* success (a list of todos) or error, never both: a failed list request
\* never replaces the displayed snapshot, and a successful one never puts
\* the view in the error state.
C22_ListOutcomeExclusive ==
    /\ [](\A r \in inflight :
             r.method = "GET" /\ r.res # "none" =>
                /\ Fetcher(r).rejected <=> Failed(r)
                /\ Fetcher(r).rejected <=> Fetcher(r).v = undefined)
    /\ [][\A r \in inflight :
             r.method = "GET" /\ Handled(r) =>
                /\ Failed(r) => value' = value
                /\ ~Failed(r) =>
                      /\ errored' = errored
                      /\ r.id = pr => value' = Some(r.data) /\ ~error'
         ]_vars

\* The latest list request failed while a populated snapshot was displayed:
\* the boundary shows its fallback and the resource still holds the snapshot.
C22_Witness ==
    /\ last.op = "list"
    /\ last.res \in {"error", "reject"}
    /\ applied = last.id
    /\ errored
    /\ value # undefined
    /\ value[1] # {}

\* C23: in every state of the todo view in which no list request is pending
\* and the view is not in the error state, the displayed snapshot is the
\* response of a list request, the one issued last, that was issued with the
\* `done` parameter of the current filter value.
C23_SnapshotMatchesFilter ==
    rendered = "TodoApp" /\ ~errored /\ pr = 0 =>
       /\ value # undefined
       /\ applied = lastList
       /\ appliedDone = Some(ExpectedDone(filter))
       /\ \A x \in value[1] :
             ExpectedDone(filter) \in {undefined, Some(x.done)}

\* The view is at rest under the filter notdone after four list requests:
\* the fourth one's response is displayed.
C23_Witness ==
    /\ Interactive
    /\ pr = 0
    /\ filter = "notdone"
    /\ applied = 4
    /\ value # undefined
    /\ value[1] # {}

\* ------------------------------------------------- runs without failures

\* The runs in which the backend answers with success responses only and no
\* response is lost.  The user acts as before, within the bounds, and may
\* stop at any time; the backend answers every request it can accept, and
\* the event loop runs the continuation of every settled request.
LiveNext ==
    \/ \E f \in DoneFilter : SetFilter(f)
    \/ \E text \in Titles \cup {""} : Input(text)
    \/ Submit
    \/ \E t \in Titles : Toggle(t)
    \/ \E t \in Titles : Delete(t)
    \/ \E r \in inflight : ListSettles(r)
    \/ \E r \in inflight : AddSettles(r)
    \/ \E r \in inflight : ToggleSettles(r)
    \/ \E r \in inflight : DeleteSettles(r)
    \/ \E r \in inflight : BackendAccepts(r)

Fairness ==
    /\ WF_vars(\E r \in inflight : BackendAccepts(r))
    /\ WF_vars(\E r \in inflight : ListSettles(r))
    /\ WF_vars(\E r \in inflight : AddSettles(r))
    /\ WF_vars(\E r \in inflight : ToggleSettles(r))
    /\ WF_vars(\E r \in inflight : DeleteSettles(r))

LiveSpec == Init /\ [][LiveNext]_vars /\ Fairness

\* A request is out that the backend cannot answer with a success response:
\* a create of a title it holds, an update of a title it does not hold.
Unservable ==
    \E r \in inflight : r.res = "none" /\ ~Acceptable(db, r)

\* Nothing is in flight and the displayed snapshot is the backend's
\* collection restricted by the current filter.
AtRest ==
    rendered = "TodoApp" =>
       /\ inflight = {}
       /\ pr = 0
       /\ ~errored
       /\ value = Some(Listing(db, DoneParam(filter)))
       /\ checked = Rows(value)

====
